---- MODULE Spec2Model ----
(***************************************************************************)
(* Model of the RELAYMSG module (src/3.0/m_relaymsg.cpp): the command      *)
(* handler CommandRelayMsg::Handle, the configuration reader               *)
(* ModuleRelayMsg::ReadConfig and the propagation of accepted requests to  *)
(* the other servers of the mesh.                                          *)
(*                                                                         *)
(* Strings are sequences of byte values (0..255), so that the per-byte     *)
(* checks, std::string::find and the "%s!%s@%s" format are computed as the *)
(* code computes them.                                                     *)
(***************************************************************************)
EXTENDS Integers, Sequences, FiniteSets, TLC

VARIABLES
    registry,        \* [server -> set of users in ServerInstance's user list]
    chans,           \* [server -> set of channel names in the channel list]
    members,         \* [server -> [channel name -> set of users in it]]
    capset,          \* local users that negotiated overdrivenetworks.com/relaymsg
    opers,           \* users that have user mode 'o'
    nick_separator,  \* [server -> RelayMsgCap::nick_separator]
    fake_ident,      \* [server -> CommandRelayMsg::fake_ident]
    fake_host,       \* [server -> CommandRelayMsg::fake_host]
    goodcfg,         \* history: [server -> values of the last ReadConfig that did not throw]
    linked,          \* the servers of the model that are linked to each other
    net,             \* ENCAP RELAYMSG instructions in flight between servers
    nsent,           \* history: number of SendEncapsulatedData calls made
    naccepted,       \* history: number of local-origin requests that returned CMD_SUCCESS
    delivered,       \* history: [server -> [request -> number of times the relay
                     \* message of the request was written to its channel there]]
    last             \* the command the event loop has just executed and what it
                     \* did; NoCommand while the server waits for the next event

vars == <<registry, chans, members, capset, opers, nick_separator, fake_ident,
          fake_host, goodcfg, linked, net, nsent, naccepted, delivered, last>>

envvars == <<registry, chans, members, capset, opers, linked>>
cfgvars == <<nick_separator, fake_ident, fake_host, goodcfg>>

----------------------------------------------------------------------------
(* Bounds of the model *)

MaxNickLen == 2
MaxRequests == 2

----------------------------------------------------------------------------
(* The mesh, its users and the inputs of the commands *)

Servers == {"s1", "s2"}
Users == {"u1", "u2"}
\* "#c"
ChanNames == {<<35, 99>>}

\* the server a user is connected to: IS_LOCAL(user) holds on that server only
home == [u \in Users |-> IF u = "u1" THEN "s1" ELSE "s2"]

\* user->nick of the real identities: "a" and "//"
nickOf == [u \in Users |-> IF u = "u1" THEN <<97>> ELSE <<47, 47>>]

\* ServerInstance->Config->ServerName: "s1.x" and "s2.x"
ServerName == [s \in Servers |-> IF s = "s1" THEN <<115, 49, 46, 120>>
                                               ELSE <<115, 50, 46, 120>>]

\* bytes a nick parameter is built from: '/', 'a', '!' and the byte 0xFF
NickBytes == {47, 97, 33, 255}

SeqsUpTo(S, n) == UNION {[1..k -> S] : k \in 1..n}

Nicks == SeqsUpTo(NickBytes, MaxNickLen)

\* "hi" and ":)"
Texts == {<<104, 105>>, <<58, 41>>}

Params == {<<c, n, t>> : c \in ChanNames, n \in Nicks, t \in Texts}

\* the requests made in the closed mesh: the nicks "a/", "//" and "a!", the
\* text "hi"
MeshNicks == {<<97, 47>>, <<47, 47>>, <<97, 33>>}

\* the texts of the requests made in the closed mesh: "hi", and ": )" which
\* starts with the ':' and holds the space of the line format of the mesh
MeshText == [n \in MeshNicks |-> IF n = <<47, 47>> THEN <<58, 32, 41>>
                                                     ELSE <<104, 105>>]

MeshParams == {<<c, n, MeshText[n]>> : c \in ChanNames, n \in MeshNicks}

\* command lines the parser is given: RELAYMSG with one, two, three and four
\* parameters, with an empty and with a non-empty text
ParserParams ==
    {<<<<35, 99>>>>,
     <<<<35, 99>>, <<97, 47>>>>,
     <<<<35, 99>>, <<97, 47>>, <<>>>>,
     <<<<35, 99>>, <<97, 47>>, <<104, 105>>>>,
     <<<<35, 99>>, <<97, 47>>, <<104, 105>>, <<120>>>>}

----------------------------------------------------------------------------
(* Program constants *)

ERR_BADRELAYNICK == 573
UCHAR_MAX == 255
npos == -1

\* "!+%@&#$:'\"?*,."
invalid_chars == <<33, 43, 37, 64, 38, 35, 36, 58, 39, 34, 63, 42, 44, 46>>

\* the constructor's loop starting at the second byte of invalid_chars
RECURSIVE PopulateMapSkipsFirst(_, _)
PopulateMapSkipsFirst(map, n) ==
    IF n + 1 > Len(invalid_chars) THEN map
    ELSE PopulateMapSkipsFirst([map EXCEPT ![invalid_chars[n + 1]] = TRUE], n + 1)

\* std::bitset<UCHAR_MAX>, all bits clear, then one bit set per byte of
\* invalid_chars by the constructor's loop
RECURSIVE PopulateMap(_, _)
PopulateMap(map, n) ==
    IF n > Len(invalid_chars) THEN map
    ELSE PopulateMap([map EXCEPT ![invalid_chars[n]] = TRUE], n + 1)

invalid_chars_map == PopulateMap([i \in 0..(UCHAR_MAX - 1) |-> FALSE], 1)

\* std::bitset::test: throws std::out_of_range when pos is not below size()
BitsetTest(map, pos) ==
    IF pos \notin DOMAIN map THEN "out_of_range"
    ELSE IF map[pos] THEN "set" ELSE "clear"

----------------------------------------------------------------------------
(* String helpers *)

\* a find that compares the first byte of the needle only
StrFindFirstByte(hay, needle) ==
    LET hits == {i \in 0..(Len(hay) - 1) : hay[i + 1] = needle[1]}
    IN  IF hits = {} THEN npos
        ELSE CHOOSE i \in hits : \A j \in hits : i <= j

\* std::string::find(needle): 0-based position of the first occurrence or npos
StrFind(hay, needle) ==
    LET hits == {i \in 0..(Len(hay) - Len(needle)) :
                    SubSeq(hay, i + 1, i + Len(needle)) = needle}
    IN  IF hits = {} THEN npos
        ELSE CHOOSE i \in hits : \A j \in hits : i <= j

\* what a %s conversion copies from std::string::c_str(): the bytes before
\* the first NUL byte
CStr(str) ==
    LET nuls == {i \in 1..Len(str) : str[i] = 0}
    IN  IF nuls = {} THEN str
        ELSE SubSeq(str, 1, (CHOOSE i \in nuls : \A j \in nuls : i <= j) - 1)

\* InspIRCd::Format("%s!%s@%s", a.c_str(), b.c_str(), c.c_str())
Format(a, b, c) == CStr(a) \o <<33>> \o CStr(b) \o <<64>> \o CStr(c)

\* a sender built with the host in the place of the ident and the ident in
\* the place of the host
GetFakeHostmaskSwapped(s, nick) == Format(nick, fake_host[s], fake_ident[s])

\* CommandRelayMsg::GetFakeHostmask
GetFakeHostmask(s, nick) == Format(nick, fake_ident[s], fake_host[s])

IS_LOCAL(s, user) == home[user] = s

\* Cap::Capability::get(user)
CapGet(user) == user \in capset

\* a tag provider that sends the tag to every recipient
ShouldSendTagAlways(user) == TRUE

\* RelayMsgCapTag::ShouldSendTag
ShouldSendTag(user) == CapGet(user)

\* ServerInstance->FindChan(channame)
FindChan(s, channame) == channame \in chans[s]

\* channel->HasUser(user)
HasUser(s, channame, user) == user \in members[s][channame]

\* a lookup that finds the users connected to this server only
FindNickLocalOnly(s, nick) == \E u \in registry[s] : IS_LOCAL(s, u) /\ nickOf[u] = nick

\* ServerInstance->FindNick(nick)
FindNick(s, nick) == \E u \in registry[s] : nickOf[u] = nick

----------------------------------------------------------------------------
(* Numerics written to the issuing user *)

\* Numerics::NoSuchChannel(channame)
NoSuchChannel(channame) ==
    [numeric |-> 403, target |-> channame, text |-> "No such channel", arg |-> <<>>]

\* Numerics::CannotSendTo(channel, message)
CannotSendTo(channame, message) ==
    [numeric |-> 404, target |-> channame, text |-> message, arg |-> <<>>]

BadRelayNick(nick, message, arg) ==
    [numeric |-> ERR_BADRELAYNICK, target |-> nick, text |-> message, arg |-> arg]

\* ERR_NOPRIVILEGES, written by the command parser for a command with flags_needed
NoPrivileges ==
    [numeric |-> 481, target |-> <<>>, text |-> "Permission Denied", arg |-> <<>>]

\* ERR_NEEDMOREPARAMS, written by the command parser for a command given
\* fewer than min_params parameters
NeedMoreParams ==
    [numeric |-> 461, target |-> <<>>, text |-> "Not enough parameters.", arg |-> <<>>]

----------------------------------------------------------------------------
(* CommandRelayMsg::Handle *)

\* what one execution of the command did: its CmdResult, the numerics written
\* to the issuing user, the calls made on ServerInstance and on the channel in the order they were
\* made, the PRIVMSG written to the channel (at most one) and the parameters
\* handed to SendEncapsulatedData (at most one call)
Outcome(result, numerics, calls, privmsg, encap) ==
    [result |-> result, numerics |-> numerics, calls |-> calls,
     privmsg |-> privmsg, encap |-> encap]

\* a loop that stops after the byte at position x
CheckCharsFirstByteOnly(nick, x) ==
    IF x > Len(nick) THEN "ok"
    ELSE LET t == BitsetTest(invalid_chars_map, nick[x])
         IN  IF t = "out_of_range" THEN "throw"
             ELSE IF t = "set" THEN "invalid"
             ELSE "ok"

\* the loop over the bytes of nick, from position x on: "invalid" at the first
\* byte whose bit is set, "throw" if test() throws first, "ok" at the end
RECURSIVE CheckChars(_, _)
CheckChars(nick, x) ==
    IF x > Len(nick) THEN "ok"
    ELSE LET t == BitsetTest(invalid_chars_map, nick[x])
         IN  IF t = "out_of_range" THEN "throw"
             ELSE IF t = "set" THEN "invalid"
             ELSE CheckChars(nick, x + 1)

\* ClientProtocol::Messages::Privmsg with the relaymsg tag, as channel->Write
\* sends it: to every local user of the channel, the tag only to the
\* recipients for which ShouldSendTag holds
Privmsg(s, fakeSource, channame, text, user) ==
    LET recipients == {r \in members[s][channame] : IS_LOCAL(s, r)}
    IN  [source |-> fakeSource, channel |-> channame, text |-> text,
         tagvalue |-> nickOf[user],
         recipients |-> recipients,
         tagged |-> {r \in recipients : ShouldSendTag(r)}]

\* the checks with the capability check made after the three calls
HandleChecksLooksUpFirst(s, user, parameters) ==
    LET channame == parameters[1]
        nick == parameters[2]
        L1 == <<"FindChan">>
        L2 == <<"FindChan", "HasUser">>
        L3 == <<"FindChan", "HasUser", "FindNick">>
        Stop(result, numerics, calls) ==
            [result |-> result, numerics |-> numerics, calls |-> calls]
    IN
    IF ~FindChan(s, channame)
    THEN Stop("CMD_FAILURE", <<NoSuchChannel(channame)>>, L1)
    ELSE IF ~HasUser(s, channame, user)
    THEN Stop("CMD_FAILURE",
              <<CannotSendTo(channame, "You must be in the channel to use this command.")>>,
              L2)
    ELSE IF FindNick(s, nick)
    THEN Stop("CMD_FAILURE",
              <<BadRelayNick(nick, "RELAYMSG spoofed nick is already in use", <<>>)>>,
              L3)
    ELSE IF IS_LOCAL(s, user) /\ ~CapGet(user)
    THEN Stop("CMD_FAILURE", <<>>, L3)
    ELSE IF CheckChars(nick, 1) = "throw"
    THEN Stop("THROWN", <<>>, L3)
    ELSE IF CheckChars(nick, 1) = "invalid"
    THEN Stop("CMD_FAILURE",
              <<BadRelayNick(nick, "Invalid characters in spoofed nick", <<>>)>>,
              L3)
    ELSE IF IS_LOCAL(s, user) /\ StrFind(nick, nick_separator[s]) = npos
    THEN Stop("CMD_FAILURE",
              <<BadRelayNick(nick, "Spoofed nickname must include separator",
                             nick_separator[s])>>,
              L3)
    ELSE Stop("PASS", <<>>, L3)

\* the checks with the nick looked up on the originating server only
HandleChecksTrustsOrigin(s, user, parameters) ==
    LET channame == parameters[1]
        nick == parameters[2]
        L1 == <<"FindChan">>
        L2 == <<"FindChan", "HasUser">>
        L3 == <<"FindChan", "HasUser", "FindNick">>
        Stop(result, numerics, calls) ==
            [result |-> result, numerics |-> numerics, calls |-> calls]
    IN
    IF IS_LOCAL(s, user) /\ ~CapGet(user)
    THEN Stop("CMD_FAILURE", <<>>, <<>>)
    ELSE IF ~FindChan(s, channame)
    THEN Stop("CMD_FAILURE", <<NoSuchChannel(channame)>>, L1)
    ELSE IF ~HasUser(s, channame, user)
    THEN Stop("CMD_FAILURE",
              <<CannotSendTo(channame, "You must be in the channel to use this command.")>>,
              L2)
    ELSE IF IS_LOCAL(s, user) /\ FindNick(s, nick)
    THEN Stop("CMD_FAILURE",
              <<BadRelayNick(nick, "RELAYMSG spoofed nick is already in use", <<>>)>>,
              L3)
    ELSE IF CheckChars(nick, 1) = "throw"
    THEN Stop("THROWN", <<>>, L3)
    ELSE IF CheckChars(nick, 1) = "invalid"
    THEN Stop("CMD_FAILURE",
              <<BadRelayNick(nick, "Invalid characters in spoofed nick", <<>>)>>,
              L3)
    ELSE IF IS_LOCAL(s, user) /\ StrFind(nick, nick_separator[s]) = npos
    THEN Stop("CMD_FAILURE",
              <<BadRelayNick(nick, "Spoofed nickname must include separator",
                             nick_separator[s])>>,
              L3)
    ELSE Stop("PASS", <<>>, L3)

\* The checks of Handle, in the order of the code: the CmdResult, numerics
\* and calls of the first check that fails, or the result "PASS" when the
\* code goes on to send the message
HandleChecks(s, user, parameters) ==
    LET channame == parameters[1]
        nick == parameters[2]
        L1 == <<"FindChan">>
        L2 == <<"FindChan", "HasUser">>
        L3 == <<"FindChan", "HasUser", "FindNick">>
        Stop(result, numerics, calls) ==
            [result |-> result, numerics |-> numerics, calls |-> calls]
    IN
    IF IS_LOCAL(s, user) /\ ~CapGet(user)
    THEN Stop("CMD_FAILURE", <<>>, <<>>)
    ELSE IF ~FindChan(s, channame)
    THEN Stop("CMD_FAILURE", <<NoSuchChannel(channame)>>, L1)
    ELSE IF ~HasUser(s, channame, user)
    THEN Stop("CMD_FAILURE",
              <<CannotSendTo(channame, "You must be in the channel to use this command.")>>,
              L2)
    ELSE IF FindNick(s, nick)
    THEN Stop("CMD_FAILURE",
              <<BadRelayNick(nick, "RELAYMSG spoofed nick is already in use", <<>>)>>,
              L3)
    ELSE IF CheckChars(nick, 1) = "throw"
    THEN Stop("THROWN", <<>>, L3)
    ELSE IF CheckChars(nick, 1) = "invalid"
    THEN Stop("CMD_FAILURE",
              <<BadRelayNick(nick, "Invalid characters in spoofed nick", <<>>)>>,
              L3)
    ELSE IF IS_LOCAL(s, user) /\ StrFind(nick, nick_separator[s]) = npos
    THEN Stop("CMD_FAILURE",
              <<BadRelayNick(nick, "Spoofed nickname must include separator",
                             nick_separator[s])>>,
              L3)
    ELSE Stop("PASS", <<>>, L3)

\* the text handed to SendEncapsulatedData as it is, without the ':'
EncapParamsNoColon(channame, nick, text) == <<channame, nick, text>>

\* the parameters Handle hands to SendEncapsulatedData
EncapParams(channame, nick, text) == <<channame, nick, <<58>> \o text>>

\* Handle with the message written to the channel before the nick is checked
HandleSendsBeforeNickChecks(s, user, parameters) ==
    LET channame == parameters[1]
        nick == parameters[2]
        text == parameters[3]
        chk == HandleChecks(s, user, parameters)
    IN
    IF Len(chk.calls) < 3
    THEN Outcome(chk.result, chk.numerics, chk.calls, <<>>, <<>>)
    ELSE Outcome(IF chk.result = "PASS" THEN "CMD_SUCCESS" ELSE chk.result,
                 chk.numerics, chk.calls,
                 <<Privmsg(s, GetFakeHostmask(s, nick), channame, text, user)>>,
                 IF IS_LOCAL(s, user) /\ chk.result = "PASS"
                 THEN <<EncapParams(channame, nick, text)>>
                 ELSE <<>>)

\* Handle passing the message on to the other servers whatever its origin
HandleRepropagates(s, user, parameters) ==
    LET channame == parameters[1]
        nick == parameters[2]
        text == parameters[3]
        chk == HandleChecks(s, user, parameters)
    IN
    IF chk.result # "PASS"
    THEN Outcome(chk.result, chk.numerics, chk.calls, <<>>, <<>>)
    ELSE Outcome("CMD_SUCCESS", <<>>, chk.calls,
                 <<Privmsg(s, GetFakeHostmask(s, nick), channame, text, user)>>,
                 <<EncapParams(channame, nick, text)>>)

\* the handler calling SendEncapsulatedData before channel->Write
HandleSendsFirst(s, user, parameters) ==
    LET channame == parameters[1]
        nick == parameters[2]
        text == parameters[3]
        chk == HandleChecks(s, user, parameters)
    IN
    IF chk.result # "PASS"
    THEN Outcome(chk.result, chk.numerics, chk.calls, <<>>, <<>>)
    ELSE Outcome("CMD_SUCCESS", <<>>,
                 chk.calls \o
                     (IF IS_LOCAL(s, user) THEN <<"SendEncapsulatedData">> ELSE <<>>)
                     \o <<"Write">>,
                 <<Privmsg(s, GetFakeHostmask(s, nick), channame, text, user)>>,
                 IF IS_LOCAL(s, user)
                 THEN <<EncapParams(channame, nick, text)>>
                 ELSE <<>>)

Handle(s, user, parameters) ==
    LET channame == parameters[1]
        nick == parameters[2]
        text == parameters[3]
        chk == HandleChecks(s, user, parameters)
    IN
    IF chk.result # "PASS"
    THEN Outcome(chk.result, chk.numerics, chk.calls, <<>>, <<>>)
    ELSE Outcome("CMD_SUCCESS", <<>>,
                 chk.calls \o <<"Write">> \o
                     (IF IS_LOCAL(s, user) THEN <<"SendEncapsulatedData">> ELSE <<>>),
                 <<Privmsg(s, GetFakeHostmask(s, nick), channame, text, user)>>,
                 IF IS_LOCAL(s, user)
                 THEN <<EncapParams(channame, nick, text)>>
                 ELSE <<>>)

\* Command(parent, "RELAYMSG", 3, 3) and allow_empty_last_param = false
min_params == 3
max_params == 3
allow_empty_last_param == FALSE

RECURSIVE JoinSpaces(_)
JoinSpaces(ps) ==
    IF Len(ps) = 1 THEN ps[1] ELSE ps[1] \o <<32>> \o JoinSpaces(Tail(ps))

\* the parameters of a command a local user typed, as the parser hands them
\* on: those beyond max_params are merged into the last one, then an empty
\* last parameter is dropped unless the command allows it
MergeLast(ps) ==
    IF Len(ps) > max_params
    THEN SubSeq(ps, 1, max_params - 1) \o <<JoinSpaces(SubSeq(ps, max_params, Len(ps)))>>
    ELSE ps

DropEmptyLast(ps, allowed) ==
    IF Len(ps) > 0 /\ ps[Len(ps)] = <<>> /\ ~allowed
    THEN SubSeq(ps, 1, Len(ps) - 1)
    ELSE ps

\* the parser with allow_empty_last_param left at true
ProcessCommandAllowsEmptyLast(s, user, parameters) ==
    LET ps == IF IS_LOCAL(s, user) THEN MergeLast(parameters) ELSE parameters
    IN
    IF IS_LOCAL(s, user) /\ user \notin opers
    THEN Outcome("BLOCKED", <<NoPrivileges>>, <<>>, <<>>, <<>>)
    ELSE IF Len(ps) < min_params
    THEN Outcome("BLOCKED", IF IS_LOCAL(s, user) THEN <<NeedMoreParams>> ELSE <<>>,
                 <<>>, <<>>, <<>>)
    ELSE Handle(s, user, ps)

\* The command parser in front of Handle. The command is registered with
\* flags_needed = 'o', so a local user without user mode 'o' is answered
\* ERR_NOPRIVILEGES and Handle is not called; with min_params = 3 and
\* allow_empty_last_param = false, so a command with fewer than three
\* parameters once an empty last one is dropped is answered
\* ERR_NEEDMOREPARAMS and Handle is not called. An instruction of another
\* server is not answered: it is dropped when its last parameter is empty
\* or it has fewer than min_params parameters.
ProcessCommand(s, user, parameters) ==
    LET ps == IF IS_LOCAL(s, user)
              THEN DropEmptyLast(MergeLast(parameters), allow_empty_last_param)
              ELSE parameters
        dropped == /\ ~IS_LOCAL(s, user)
                   /\ DropEmptyLast(parameters, allow_empty_last_param) # parameters
    IN
    IF IS_LOCAL(s, user) /\ user \notin opers
    THEN Outcome("BLOCKED", <<NoPrivileges>>, <<>>, <<>>, <<>>)
    ELSE IF dropped \/ Len(ps) < min_params
    THEN Outcome("BLOCKED", IF IS_LOCAL(s, user) THEN <<NeedMoreParams>> ELSE <<>>,
                 <<>>, <<>>, <<>>)
    ELSE Handle(s, user, ps)

----------------------------------------------------------------------------
(* ModuleRelayMsg::ReadConfig *)

\* a <relaymsg> tag: each key is absent (<<>>) or present with a value (<<v>>)
getString(opt, def) == IF opt = <<>> THEN def ELSE opt[1]

\* ServerInstance->IsIdent: not empty, every byte in 'A'..'}', '0'..'9', '-' or '.'
IsIdent(str) ==
    /\ Len(str) > 0
    /\ \A i \in 1..Len(str) :
          \/ (str[i] >= 65 /\ str[i] <= 125)
          \/ (str[i] >= 48 /\ str[i] <= 57)
          \/ str[i] = 45
          \/ str[i] = 46

\* ServerInstance->IsHost: not empty, letters, digits, '-' and '.', no '.' or
\* '-' at either end or after a '.', and at least one '.'
IsHost(str) ==
    LET alnum(b) == \/ (b >= 48 /\ b <= 57)
                    \/ (b >= 65 /\ b <= 90)
                    \/ (b >= 97 /\ b <= 122)
    IN  /\ Len(str) > 0
        /\ \A i \in 1..Len(str) :
              \/ alnum(str[i])
              \/ /\ str[i] \in {45, 46}
                 /\ i > 1
                 /\ i < Len(str)
                 /\ str[i - 1] # 46
        /\ \E i \in 1..Len(str) : str[i] = 46

\* the values the three assignments of ReadConfig store
ConfValue(s, tag) ==
    [separator |-> getString(tag.separator, <<47>>),
     ident |-> getString(tag.ident, <<114, 101, 108, 97, 121>>),
     host |-> getString(tag.host, ServerName[s])]

\* the ModuleException ReadConfig throws for these values, or "" for none
ConfigError(cfg) ==
    IF ~IsIdent(cfg.ident) THEN "Invalid ident value for <relaymsg>"
    ELSE IF ~IsHost(cfg.host) THEN "Invalid host value for <relaymsg>"
    ELSE ""

\* the <relaymsg> tags a configuration file may hold: separator absent or
\* "a/", ident absent or "r!" (not an ident), host absent or "h x" (not a host)
ConfigTags ==
    [separator : {<<>>, <<<<97, 47>>>>},
     ident : {<<>>, <<<<114, 33>>>>},
     host : {<<>>, <<<<104, 32, 120>>>>}]

----------------------------------------------------------------------------
(* Initial state: the module is loaded on every server with an empty       *)
(* <relaymsg> tag, nobody is connected, no channel exists and the servers   *)
(* of the model are not linked to each other.                               *)

\* a request is named by the server that accepted it from a local user and
\* the number of the SendEncapsulatedData call that propagated it
RequestIds == Servers \X (1..MaxRequests)

\* an execution that belongs to no request of the model
NoRequest == [id |-> <<"", 0>>, orig |-> <<>>]

NoCommand ==
    [server |-> "", user |-> "", params |-> <<>>, result |-> "NONE",
     numerics |-> <<>>, calls |-> <<>>, privmsg |-> <<>>, encap |-> <<>>,
     reqid |-> NoRequest.id, orig |-> NoRequest.orig]

\* the event loop is between two events
Idle == last = NoCommand

DefaultConfig(s) == ConfValue(s, [separator |-> <<>>, ident |-> <<>>, host |-> <<>>])

InitModule ==
    /\ nick_separator = [s \in Servers |-> DefaultConfig(s).separator]
    /\ fake_ident = [s \in Servers |-> DefaultConfig(s).ident]
    /\ fake_host = [s \in Servers |-> DefaultConfig(s).host]
    /\ goodcfg = [s \in Servers |-> DefaultConfig(s)]
    /\ net = {}
    /\ nsent = 0
    /\ naccepted = 0
    /\ delivered = [s \in Servers |-> [r \in RequestIds |-> 0]]
    /\ last = NoCommand

InitEmpty ==
    /\ registry = [s \in Servers |-> {}]
    /\ chans = [s \in Servers |-> {}]
    /\ members = [s \in Servers |-> [c \in ChanNames |-> {}]]
    /\ capset = {}
    /\ opers = {}
    /\ InitModule

Init ==
    /\ InitEmpty
    /\ linked = {}

----------------------------------------------------------------------------
(* The servers' surroundings: users, channels, capabilities, oper status    *)

\* a user appears in the user list of server s
UserConnect(s, u) ==
    /\ Idle
    /\ u \notin registry[s]
    /\ registry' = [registry EXCEPT ![s] = @ \cup {u}]
    /\ UNCHANGED <<chans, members, capset, opers, linked, cfgvars, net, nsent, naccepted, delivered, last>>

\* a user leaves the user list of server s, and with it the channels there; a
\* channel without users is removed from the channel list
UserQuit(s, u) ==
    /\ Idle
    /\ u \in registry[s]
    /\ registry' = [registry EXCEPT ![s] = @ \ {u}]
    /\ members' = [members EXCEPT ![s] = [c \in ChanNames |-> members[s][c] \ {u}]]
    /\ chans' = [chans EXCEPT ![s] = {c \in ChanNames : members'[s][c] # {}}]
    /\ capset' = IF IS_LOCAL(s, u) THEN capset \ {u} ELSE capset
    /\ opers' = IF IS_LOCAL(s, u) THEN opers \ {u} ELSE opers
    /\ UNCHANGED <<linked, cfgvars, net, nsent, naccepted, delivered, last>>

\* a user joins a channel in the view of server s, creating it if needed
UserJoin(s, u, c) ==
    /\ Idle
    /\ u \in registry[s]
    /\ u \notin members[s][c]
    /\ members' = [members EXCEPT ![s][c] = @ \cup {u}]
    /\ chans' = [chans EXCEPT ![s] = @ \cup {c}]
    /\ UNCHANGED <<registry, capset, opers, linked, cfgvars, net, nsent, naccepted, delivered, last>>

\* a user leaves a channel in the view of server s
UserPart(s, u, c) ==
    /\ Idle
    /\ u \in members[s][c]
    /\ members' = [members EXCEPT ![s][c] = @ \ {u}]
    /\ chans' = [chans EXCEPT ![s] = {d \in ChanNames : members'[s][d] # {}}]
    /\ UNCHANGED <<registry, capset, opers, linked, cfgvars, net, nsent, naccepted, delivered, last>>

\* a local user of s requests or drops the relaymsg capability
CapToggle(s, u) ==
    /\ Idle
    /\ IS_LOCAL(s, u)
    /\ u \in registry[s]
    /\ capset' = IF u \in capset THEN capset \ {u} ELSE capset \cup {u}
    /\ UNCHANGED <<registry, chans, members, opers, linked, cfgvars, net, nsent, naccepted, delivered, last>>

\* a local user of s gains or loses user mode 'o'
OperToggle(s, u) ==
    /\ Idle
    /\ IS_LOCAL(s, u)
    /\ u \in registry[s]
    /\ opers' = IF u \in opers THEN opers \ {u} ELSE opers \cup {u}
    /\ UNCHANGED <<registry, chans, members, capset, linked, cfgvars, net, nsent, naccepted, delivered, last>>

----------------------------------------------------------------------------
(* Operations of the module *)

\* ModuleRelayMsg::ReadConfig on a rehash of server s with the given tag: the
\* three values are stored first, the two checks follow
ReadConfig(s, tag) ==
    LET cfg == ConfValue(s, tag)
    IN  /\ Idle
        /\ nick_separator' = [nick_separator EXCEPT ![s] = cfg.separator]
        /\ fake_ident' = [fake_ident EXCEPT ![s] = cfg.ident]
        /\ fake_host' = [fake_host EXCEPT ![s] = cfg.host]
        /\ goodcfg' = IF ConfigError(cfg) = "" THEN [goodcfg EXCEPT ![s] = cfg]
                      ELSE goodcfg
        /\ UNCHANGED <<envvars, net, nsent, naccepted, delivered, last>>

\* the servers a SendEncapsulatedData call of s with target mask "*" reaches
Peers(s) == IF s \in linked THEN linked \ {s} ELSE {}

\* the parameters of an ENCAP * RELAYMSG line as they are written on the
\* link: each parameter is pushed after one space, as it is
WireLine(params) ==
    params[1] \o <<32>> \o params[2] \o <<32>> \o params[3]

\* the last parameter of an ENCAP line as the receiving server parses it: the
\* leading ':' marks the trailing parameter and is not part of it
Trailing(p) == IF Len(p) > 0 /\ p[1] = 58 THEN Tail(p) ELSE p

\* the parameters the receiving server reads from the line: the line is cut
\* at its spaces until a parameter that starts with ':', which takes the
\* rest of the line
RECURSIVE Tokens(_)
Tokens(line) ==
    LET spaces == {i \in 1..Len(line) : line[i] = 32}
        sp == CHOOSE i \in spaces : \A j \in spaces : i <= j
    IN  IF line = <<>> THEN <<>>
        ELSE IF line[1] = 58 \/ spaces = {} THEN <<Trailing(line)>>
        ELSE <<SubSeq(line, 1, sp - 1)>> \o Tokens(SubSeq(line, sp + 1, Len(line)))

\* the effects of one execution of the command on server s: the record of
\* the execution, and one ENCAP instruction for every server reached added
\* to the instructions still in flight when SendEncapsulatedData was called.
\* req is the request the execution belongs to: the request of the
\* instruction received, or NoRequest for a command a user typed, which
\* starts a request of its own when it writes or propagates something.
Execute(s, user, parameters, out, pending, req) ==
    LET acts == Len(out.privmsg) > 0 \/ Len(out.encap) > 0
        rid == IF req # NoRequest THEN req.id
               ELSE IF IS_LOCAL(s, user) /\ acts THEN <<s, nsent + 1>>
               ELSE NoRequest.id
        orig == IF req # NoRequest THEN req.orig ELSE parameters
    IN
    /\ Len(out.encap) > 0 => nsent < MaxRequests
    /\ (IS_LOCAL(s, user) /\ out.result = "CMD_SUCCESS") => naccepted < MaxRequests
    /\ last' = [server |-> s, user |-> user, params |-> parameters,
                result |-> out.result, numerics |-> out.numerics,
                calls |-> out.calls, privmsg |-> out.privmsg,
                encap |-> out.encap, reqid |-> rid, orig |-> orig]
    /\ nsent' = IF Len(out.encap) > 0 THEN nsent + 1 ELSE nsent
    /\ naccepted' = IF IS_LOCAL(s, user) /\ out.result = "CMD_SUCCESS"
                    THEN naccepted + 1 ELSE naccepted
    /\ delivered' = IF Len(out.privmsg) > 0 /\ rid \in RequestIds
                    THEN [delivered EXCEPT ![s][rid] = @ + 1]
                    ELSE delivered
    /\ net' = IF Len(out.encap) > 0
              THEN pending \cup {[id |-> rid, dest |-> d, user |-> user,
                                  line |-> WireLine(out.encap[1]),
                                  orig |-> orig] :
                                 d \in Peers(s)}
              ELSE pending

\* a command that, when it succeeds, adds the user the synthetic nick belongs
\* to to the user list of the server
LocalCommandRegistersNick(s, user, parameters) ==
    /\ Idle
    /\ IS_LOCAL(s, user)
    /\ user \in registry[s]
    /\ Execute(s, user, parameters, ProcessCommand(s, user, parameters), net,
               NoRequest)
    /\ registry' =
           IF ProcessCommand(s, user, parameters).result = "CMD_SUCCESS"
           THEN [registry EXCEPT ![s] = @ \cup {u \in Users : nickOf[u] = parameters[2]}]
           ELSE registry
    /\ UNCHANGED <<chans, members, capset, opers, linked, cfgvars>>

\* a local user of s issues RELAYMSG <channel> <nick> <text>
LocalCommand(s, user, parameters) ==
    /\ Idle
    /\ IS_LOCAL(s, user)
    /\ user \in registry[s]
    /\ Execute(s, user, parameters, ProcessCommand(s, user, parameters), net,
               NoRequest)
    /\ UNCHANGED <<envvars, cfgvars>>

\* a receive that leaves the instruction in flight, to be received again
ReceiveKeepsInstruction(s, m) ==
    /\ Idle
    /\ m \in net
    /\ m.dest = s
    /\ m.user \in registry[s]
    /\ Execute(s, m.user, Tokens(m.line),
               ProcessCommand(s, m.user, Tokens(m.line)),
               net, [id |-> m.id, orig |-> m.orig])
    /\ UNCHANGED <<envvars, cfgvars>>

\* server s receives an ENCAP RELAYMSG instruction from the mesh and
\* executes it with its source user
Receive(s, m) ==
    /\ Idle
    /\ m \in net
    /\ m.dest = s
    /\ m.user \in registry[s]
    /\ Execute(s, m.user, Tokens(m.line),
               ProcessCommand(s, m.user, Tokens(m.line)),
               net \ {m}, [id |-> m.id, orig |-> m.orig])
    /\ UNCHANGED <<envvars, cfgvars>>

\* fire and forget: an instruction in flight never reaches its destination
Lose(m) ==
    /\ Idle
    /\ m \in net
    /\ net' = net \ {m}
    /\ UNCHANGED <<envvars, cfgvars, nsent, naccepted, delivered, last>>

\* server s receives an ENCAP RELAYMSG instruction from a server outside the
\* modelled mesh (any linked server may send one), with a remote source user
RemoteCommand(s, user, parameters) ==
    /\ Idle
    /\ ~IS_LOCAL(s, user)
    /\ user \in registry[s]
    /\ Execute(s, user, parameters, ProcessCommand(s, user, parameters), net,
               NoRequest)
    /\ UNCHANGED <<envvars, cfgvars>>

\* the command has returned: the event loop waits for the next event
EventDone ==
    /\ ~Idle
    /\ last' = NoCommand
    /\ UNCHANGED <<envvars, cfgvars, net, nsent, naccepted, delivered>>

----------------------------------------------------------------------------
(* Specifications *)

\* One server, s1, with its users, channels and configuration changing freely,
\* executing the commands of its local users and the instructions that
\* reach it from the servers it is linked to, which are outside the model:
\* what s1 propagates is recorded in last.encap and counted in nsent.
Next ==
    \/ \E u \in Users : UserConnect("s1", u)
    \/ \E u \in Users : UserQuit("s1", u)
    \/ \E u \in Users, c \in ChanNames : UserJoin("s1", u, c)
    \/ \E u \in Users, c \in ChanNames : UserPart("s1", u, c)
    \/ \E u \in Users : CapToggle("s1", u)
    \/ \E u \in Users : OperToggle("s1", u)
    \/ \E tag \in ConfigTags : ReadConfig("s1", tag)
    \/ \E u \in Users, p \in Params : LocalCommand("s1", u, p)
    \/ \E u \in Users, p \in Params : RemoteCommand("s1", u, p)
    \/ EventDone

Spec == Init /\ [][Next]_vars

\* The closed mesh: the servers of the model are linked to each other, and
\* every server executes the commands of its local users and the
\* instructions the other servers propagated to it.
InitMesh ==
    /\ InitEmpty
    /\ linked = Servers

NextMesh ==
    \/ \E s \in Servers, u \in Users : UserConnect(s, u)
    \/ \E s \in Servers, u \in Users : UserQuit(s, u)
    \/ \E s \in Servers, u \in Users, c \in ChanNames : UserJoin(s, u, c)
    \/ \E s \in Servers, u \in Users, c \in ChanNames : UserPart(s, u, c)
    \/ \E s \in Servers, u \in Users : CapToggle(s, u)
    \/ \E s \in Servers, u \in Users : OperToggle(s, u)
    \/ \E s \in Servers, u \in Users, p \in MeshParams : LocalCommand(s, u, p)
    \/ \E s \in Servers, m \in net : Receive(s, m)
    \/ \E m \in net : Lose(m)
    \/ EventDone

SpecMesh == InitMesh /\ [][NextMesh]_vars

\* The server s1 as in Spec, given command lines and instructions with any
\* number of parameters.
NextParser ==
    \/ \E u \in Users : UserConnect("s1", u)
    \/ \E u \in Users : UserQuit("s1", u)
    \/ \E u \in Users, c \in ChanNames : UserJoin("s1", u, c)
    \/ \E u \in Users, c \in ChanNames : UserPart("s1", u, c)
    \/ \E u \in Users : CapToggle("s1", u)
    \/ \E u \in Users : OperToggle("s1", u)
    \/ \E u \in Users, p \in ParserParams : LocalCommand("s1", u, p)
    \/ \E u \in Users, p \in ParserParams : RemoteCommand("s1", u, p)
    \/ EventDone

SpecParser == Init /\ [][NextParser]_vars

----------------------------------------------------------------------------
(* Vocabulary of the properties *)

TypeOK ==
    /\ \A s \in Servers : registry[s] \subseteq Users /\ chans[s] \subseteq ChanNames
    /\ \A s \in Servers : \A c \in ChanNames : members[s][c] \subseteq registry[s]
    /\ capset \subseteq Users
    /\ opers \subseteq Users
    /\ nsent \in 0..MaxRequests
    /\ naccepted \in 0..MaxRequests

\* a command has just been executed; the users, channels and configuration
\* are those it was executed with
Executed == ~Idle
LastLocal == IS_LOCAL(last.server, last.user)
LastChan == last.params[1]
LastNick == last.params[2]
LastText == last.params[3]

\* the request ended without success
Failed == last.result \in {"CMD_FAILURE", "THROWN", "BLOCKED"}
Delivered == last.privmsg # <<>>
Propagated == last.encap # <<>>

\* the bytes ! + % @ & # $ : ' " ? * , .
ForbiddenBytes == {33, 43, 37, 64, 38, 35, 36, 58, 39, 34, 63, 42, 44, 46}

HasForbidden(nick) == \E i \in 1..Len(nick) : nick[i] \in ForbiddenBytes

\* sep occurs in nick as a substring
Contains(nick, sep) ==
    \E i \in 1..(Len(nick) - Len(sep) + 1) : SubSeq(nick, i, i + Len(sep) - 1) = sep

\* a real identity with this nick is in the user list of server s
RealIdentityNamed(s, nick) == \E u \in registry[s] : nickOf[u] = nick

\* the issuing user of the executed command holds the permission (a remote
\* user needs none), the channel exists and the user is in it
Permitted == LastLocal => (last.user \in opers /\ last.user \in capset)
ChannelExists == LastChan \in chans[last.server]
IsMember == last.user \in members[last.server][LastChan]
EarlierChecksPass == Permitted /\ ChannelExists /\ IsMember

\* the separator configured on the server that executed the command
LastSeparator == nick_separator[last.server]

\* the numeric of the request is ERR_BADRELAYNICK with this text
BadNickError(text) ==
    /\ Len(last.numerics) = 1
    /\ last.numerics[1].numeric = ERR_BADRELAYNICK
    /\ last.numerics[1].text = text

----------------------------------------------------------------------------
(* Properties *)

\* C1: a relay request, local or remote, that ends with a failure has written
\* no message to the channel and has sent no RELAYMSG instruction to the
\* other servers: nothing but numerics to the issuing user came of it.
C1_FailedRequestHasNoEffect ==
    (Executed /\ Failed) =>
        /\ ~Delivered
        /\ ~Propagated

\* a request that passed the permission, channel and membership checks and
\* the collision check and failed on the shape of the nick
C1_Witness ==
    /\ Executed
    /\ last.result = "CMD_FAILURE"
    /\ last.calls = <<"FindChan", "HasUser", "FindNick">>
    /\ BadNickError("Spoofed nickname must include separator")

\* C2: a server never sends on an instruction it executes for a remote user:
\* every instruction in flight comes from the server of its issuing user, and
\* the number of SendEncapsulatedData calls equals the number of accepted
\* local-origin requests.
C2_OnlyOriginPropagates ==
    /\ nsent = naccepted
    /\ (Executed /\ ~LastLocal) => ~Propagated
    /\ \A m \in net : home[m.user] # m.dest

\* a server has executed with success an instruction propagated to it
C2_Witness ==
    /\ Executed
    /\ ~LastLocal
    /\ last.result = "CMD_SUCCESS"
    /\ Delivered
    /\ nsent >= 1

\* C3 as stated: whenever a real identity has the nick of the request, the
\* request fails with the nick-in-use error, whatever the state of the
\* channel and of the permission.
C3_CollisionErrorAlways ==
    (Executed /\ RealIdentityNamed(last.server, LastNick)) =>
        BadNickError("RELAYMSG spoofed nick is already in use")

\* C3 amended: whenever a real identity has the nick of the request, the
\* request fails and nothing is delivered or propagated; it fails with the
\* nick-in-use error exactly when the permission, channel and membership
\* checks pass, and otherwise with the outcome of the first of those checks
\* that fails.
C3_CollisionAlwaysFails ==
    (Executed /\ RealIdentityNamed(last.server, LastNick)) =>
        /\ Failed
        /\ ~Delivered
        /\ ~Propagated
        /\ EarlierChecksPass <=> BadNickError("RELAYMSG spoofed nick is already in use")

\* a local request for the nick of a connected user, rejected as in use
C3_Witness ==
    /\ Executed
    /\ LastLocal
    /\ RealIdentityNamed(last.server, LastNick)
    /\ BadNickError("RELAYMSG spoofed nick is already in use")

\* C4: a remote-origin instruction is delivered whenever the channel exists
\* on the receiving server and the nick passes validation, whether or not the
\* issuing user is in the channel there.
C4_RemoteSkipsMembership ==
    ( /\ Executed
      /\ ~LastLocal
      /\ ChannelExists
      /\ ~RealIdentityNamed(last.server, LastNick)
      /\ CheckChars(LastNick, 1) = "ok"
      /\ Contains(LastNick, LastSeparator) ) =>
        (last.result = "CMD_SUCCESS" /\ Delivered)

C6_FailedReloadAppliesNothing ==
    /\ \A s \in Servers :
          /\ nick_separator[s] = goodcfg[s].separator
          /\ fake_ident[s] = goodcfg[s].ident
          /\ fake_host[s] = goodcfg[s].host
    /\ (Executed /\ Delivered) =>
          last.privmsg[1].source =
              LastNick \o <<33>> \o goodcfg[last.server].ident
                       \o <<64>> \o goodcfg[last.server].host

\* C7: a local request of a user without user mode 'o' or without the
\* capability is rejected with no channel or nick lookup made, and with an
\* outcome that depends on the missing permission only.
C7_PermissionCheckedFirst ==
    (Executed /\ LastLocal /\ ~Permitted) =>
        /\ last.calls = <<>>
        /\ ~Delivered
        /\ ~Propagated
        /\ last.result = IF last.user \notin opers THEN "BLOCKED" ELSE "CMD_FAILURE"
        /\ last.numerics = IF last.user \notin opers THEN <<NoPrivileges>> ELSE <<>>

\* a local oper without the capability, rejected although the channel
\* exists, the user is in it and the nick is free and well formed
C7_Witness ==
    /\ Executed
    /\ LastLocal
    /\ last.user \in opers
    /\ last.user \notin capset
    /\ ChannelExists
    /\ IsMember
    /\ ~RealIdentityNamed(last.server, LastNick)
    /\ ~HasForbidden(LastNick)
    /\ Contains(LastNick, LastSeparator)
    /\ last.result = "CMD_FAILURE"
    /\ last.calls = <<>>

\* C8: a local request that fails the permission check is answered with a
\* permission-denied numeric, and nothing is delivered or propagated.
C8_PermissionDeniedIsSignalled ==
    (Executed /\ LastLocal /\ ~Permitted) =>
        /\ Failed
        /\ last.numerics # <<>>
        /\ ~Delivered
        /\ ~Propagated

\* C9: a request whose nick contains a forbidden byte fails, whatever the
\* separator and the origin; the nick of a message written to a channel or
\* handed to SendEncapsulatedData is the nick of the request and contains no
\* forbidden byte.
C9_NoForbiddenCharacterRelayed ==
    /\ (Executed /\ HasForbidden(LastNick)) => (Failed /\ ~Delivered /\ ~Propagated)
    /\ (Executed /\ Delivered) =>
          /\ SubSeq(last.privmsg[1].source, 1, Len(LastNick)) = LastNick
          /\ last.privmsg[1].source[Len(LastNick) + 1] = 33
          /\ ~HasForbidden(LastNick)
    /\ (Executed /\ Propagated) =>
          /\ last.encap[1][2] = LastNick
          /\ ~HasForbidden(LastNick)

\* a local request whose nick holds the separator and a forbidden byte,
\* rejected for its invalid characters
C9_Witness ==
    /\ Executed
    /\ LastLocal
    /\ HasForbidden(LastNick)
    /\ Contains(LastNick, LastSeparator)
    /\ BadNickError("Invalid characters in spoofed nick")

----------------------------------------------------------------------------
(* C11 *)

\* position of the first occurrence of a call in the calls of the command
\* just executed, 0 when it was not made
CallPos(name) ==
    LET hits == {i \in 1..Len(last.calls) : last.calls[i] = name}
    IN  IF hits = {} THEN 0 ELSE CHOOSE i \in hits : \A j \in hits : i <= j

AcceptedLocal == Executed /\ LastLocal /\ last.result = "CMD_SUCCESS"

\* C11: a request accepted from a local user is written to the channel on
\* its own server before SendEncapsulatedData is called, whatever servers
\* that call reaches; and no later step (an instruction lost, received or
\* failing on a peer) lowers the number of deliveries recorded on any server.
C11_LocalDeliveryBeforePropagation ==
    [][/\ AcceptedLocal' =>
           /\ Delivered'
           /\ CallPos("Write")' > 0
           /\ CallPos("SendEncapsulatedData")' > CallPos("Write")'
           /\ last'.reqid \in RequestIds
           /\ delivered'[last'.server][last'.reqid] = 1
       /\ \A s \in Servers, r \in RequestIds : delivered'[s][r] >= delivered[s][r]
      ]_vars

\* a request was delivered on its own server, its instruction is no longer
\* in flight and the peer never delivered it
C11_Witness ==
    \E r \in RequestIds :
        /\ delivered[r[1]][r] = 1
        /\ \A m \in net : m.id # r
        /\ \A s \in Servers \ {r[1]} : delivered[s][r] = 0
        /\ Idle

----------------------------------------------------------------------------
(* C12 *)

\* the instructions in flight that the command just executed sent
SentBy(s, r) == {m \in net : m.id = r /\ m.user = last.user /\ m.dest # s}

\* C12: a request accepted from a local user is written to the channel with
\* the sender nick!ident@host, the channel and the text of the request, and
\* one instruction goes to every other server, which reads from it the
\* channel, the nick and the text of the request; a server that executes an
\* instruction executes it as a remote-origin request of the same user with
\* the channel, the nick and the text the originating server was given.
C12_PropagatedAsGiven ==
    /\ AcceptedLocal =>
           /\ Delivered
           /\ last.privmsg[1].source =
                  LastNick \o <<33>> \o fake_ident[last.server] \o <<64>>
                           \o fake_host[last.server]
           /\ last.privmsg[1].channel = LastChan
           /\ last.privmsg[1].text = LastText
           /\ \A d \in Servers \ {last.server} :
                  \E m \in SentBy(last.server, last.reqid) :
                      m.dest = d /\ Tokens(m.line) = last.params
    /\ \A m \in net : Tokens(m.line) = m.orig
    /\ (Executed /\ last.reqid \in RequestIds /\ last.reqid[1] # last.server) =>
           /\ ~LastLocal
           /\ last.params = last.orig

\* a peer has executed the instruction of the request with the text ": )"
\* and delivered it
C12_Witness ==
    /\ Executed
    /\ last.reqid \in RequestIds
    /\ last.reqid[1] # last.server
    /\ Delivered
    /\ LastText = <<58, 32, 41>>
    /\ last.privmsg[1].text = <<58, 32, 41>>

----------------------------------------------------------------------------
(* C13 *)

\* C13: in every relay message delivered, the relaymsg tag goes to exactly
\* the recipients that negotiated the capability, and its value is the nick
\* of the user that issued the command, which is never the synthetic nick.
C13_TagForCapableRecipientsOnly ==
    (Executed /\ Delivered) =>
        LET pm == last.privmsg[1]
        IN  /\ pm.tagged \subseteq pm.recipients
            /\ \A r \in pm.recipients : r \in pm.tagged <=> r \in capset
            /\ pm.tagvalue = nickOf[last.user]
            /\ pm.tagvalue # LastNick

\* a message delivered to a recipient without the capability, untagged
C13_Witness ==
    /\ Executed
    /\ Delivered
    /\ \E r \in last.privmsg[1].recipients :
           r \notin capset /\ r \notin last.privmsg[1].tagged

----------------------------------------------------------------------------
(* C14 *)

\* the sender string the specification gives for a nick, an ident and a host
Forge(nick, ident, host) == nick \o <<33>> \o ident \o <<64>> \o host

\* C14: the sender of every relay message delivered is the synthetic nick,
\* "!", the ident configured on the delivering server, "@" and the host
\* configured there, and nothing else.
C14_SenderIsForged ==
    (Executed /\ Delivered) =>
        last.privmsg[1].source =
            Forge(LastNick, fake_ident[last.server], fake_host[last.server])

\* the message of nick "a/" delivered from "a/!relay@s1.x"
C14_Witness ==
    /\ Executed
    /\ Delivered
    /\ LastNick = <<97, 47>>
    /\ last.privmsg[1].source =
           <<97, 47, 33, 114, 101, 108, 97, 121, 64, 115, 49, 46, 120>>

----------------------------------------------------------------------------
(* C15 *)

\* the command line has fewer than three parameters or an empty text
Malformed(ps) == Len(ps) < 3 \/ (Len(ps) = 3 /\ ps[3] = <<>>)

\* C15: a RELAYMSG with fewer than three parameters or with an empty text is
\* rejected before Handle makes any call: nothing is delivered and nothing
\* is propagated; and no message delivered or propagated has an empty text.
C15_MalformedRequestRejected ==
    Executed =>
        /\ Malformed(last.params) =>
               /\ last.result = "BLOCKED"
               /\ last.calls = <<>>
               /\ ~Delivered
               /\ ~Propagated
        /\ Delivered => last.privmsg[1].text # <<>>
        /\ Propagated => Trailing(last.encap[1][3]) # <<>>

\* an operator with the capability, member of the channel, gives an empty
\* text and is answered ERR_NEEDMOREPARAMS
C15_Witness ==
    /\ Executed
    /\ LastLocal
    /\ Permitted
    /\ last.params = <<<<35, 99>>, <<97, 47>>, <<>>>>
    /\ last.user \in members[last.server][<<35, 99>>]
    /\ last.result = "BLOCKED"
    /\ last.numerics = <<NeedMoreParams>>

----------------------------------------------------------------------------
(* C16 *)

\* the check of the fixed order that fails first for the executed request,
\* "none" when all pass; each check is read from the state the command ran in
FirstFailingCheck ==
    IF ~Permitted THEN "permission"
    ELSE IF ~ChannelExists THEN "channel"
    ELSE IF ~IsMember THEN "membership"
    ELSE IF RealIdentityNamed(last.server, LastNick) THEN "collision"
    ELSE IF HasForbidden(LastNick) THEN "characters"
    ELSE IF LastLocal /\ ~Contains(LastNick, LastSeparator) THEN "separator"
    ELSE "none"

\* the check the single error reported belongs to, "none" when no error
\* was reported
ReportedCheck ==
    IF last.numerics = <<>> THEN "none"
    ELSE IF last.numerics = <<NoPrivileges>> THEN "permission"
    ELSE IF last.numerics = <<NoSuchChannel(LastChan)>> THEN "channel"
    ELSE IF last.numerics[1].numeric # ERR_BADRELAYNICK THEN "membership"
    ELSE IF BadNickError("RELAYMSG spoofed nick is already in use") THEN "collision"
    ELSE IF BadNickError("Invalid characters in spoofed nick") THEN "characters"
    ELSE "separator"

\* C16: the checks run in the order permission, channel, membership, nick
\* collision, forbidden characters, separator and stop at the first that
\* fails: at most one error is reported; when a check after the permission
\* check is the first to fail, the error reported is the error of that
\* check, the forbidden-character error differing from the separator error;
\* when the permission check fails, no error of a later check is reported;
\* and when no check fails the request succeeds.
C16_EarliestFailingCheckReported ==
    Executed =>
        /\ Len(last.numerics) <= 1
        /\ FirstFailingCheck = "permission" => ReportedCheck \in {"permission", "none"}
        /\ FirstFailingCheck # "permission" => ReportedCheck = FirstFailingCheck
        /\ FirstFailingCheck = "none" <=> last.result = "CMD_SUCCESS"

----------------------------------------------------------------------------
(* C17 *)

\* C17: whenever a relay message is written to a channel on a server, no
\* user in the user list of that server has the synthetic nick, whatever
\* users connected or quit before, on this server or another, and whether
\* the request came from a local user or from another server.
C17_NoRealIdentityAtDelivery ==
    (Executed /\ Delivered) => ~RealIdentityNamed(last.server, LastNick)

\* a message delivered on one server under a nick that a user known to
\* another server has
C17_Witness ==
    /\ Executed
    /\ Delivered
    /\ ~RealIdentityNamed(last.server, LastNick)
    /\ \E s \in Servers \ {last.server} : RealIdentityNamed(s, LastNick)

----------------------------------------------------------------------------
(* C18 *)

\* C18: the execution of a relay request, local or remote, successful or
\* not, changes neither the user list, the channels and their members, the
\* capabilities and modes of the users, nor the separator, ident and host
\* configured; after a successful request the user list still holds no user
\* with the synthetic nick.
C18_HandleChangesNoState ==
    [][(Idle /\ ~Idle') =>
          /\ registry' = registry
          /\ chans' = chans
          /\ members' = members
          /\ capset' = capset
          /\ opers' = opers
          /\ nick_separator' = nick_separator
          /\ fake_ident' = fake_ident
          /\ fake_host' = fake_host
          /\ last'.result = "CMD_SUCCESS" =>
                 \A u \in registry'[last'.server] : nickOf[u] # last'.params[2]
      ]_vars

\* a local request for the nick "//" has succeeded and the user that has
\* this nick on another server is still unknown here
C18_Witness ==
    /\ Executed
    /\ LastLocal
    /\ last.result = "CMD_SUCCESS"
    /\ LastNick = <<47, 47>>
    /\ ~RealIdentityNamed(last.server, LastNick)

----------------------------------------------------------------------------
(* C19 *)

\* C19: every relay request executed ends in success or in one of the
\* failures of the command, and when its nick is checked byte by byte the
\* table of forbidden characters has an entry for each of its bytes, the
\* byte 255 included: the lookup never ends in an out-of-range exception.
C19_EveryRequestEndsDefined ==
    Executed =>
        /\ last.result \in {"CMD_SUCCESS", "CMD_FAILURE", "BLOCKED"}
        /\ (CallPos("FindNick") > 0 /\ ~RealIdentityNamed(last.server, LastNick)) =>
               \A i \in 1..Len(LastNick) :
                   BitsetTest(invalid_chars_map, LastNick[i]) # "out_of_range"

----------------------------------------------------------------------------
(* C20 *)

\* the instructions of request r in flight to server d
InFlight(r, d) == {m \in net : m.id = r /\ m.dest = d}

\* C20: no server delivers the relay message of a request more than once;
\* a request that was propagated or delivered anywhere was delivered exactly
\* once on the server that accepted it; at most one instruction per request
\* goes to each other server, none goes back to the server that accepted
\* it, and a server an instruction is still in flight to has not delivered
\* the request.
C20_DeliveredAtMostOnce ==
    \A r \in RequestIds :
        /\ \A s \in Servers : delivered[s][r] <= 1
        /\ ((\E s \in Servers : delivered[s][r] > 0) \/ (\E m \in net : m.id = r))
               => delivered[r[1]][r] = 1
        /\ InFlight(r, r[1]) = {}
        /\ \A d \in Servers :
               /\ Cardinality(InFlight(r, d)) <= 1
               /\ InFlight(r, d) # {} => delivered[d][r] = 0

\* a request delivered once on the server that accepted it and once on its
\* peer, with nothing left in flight
C20_Witness ==
    \E r \in RequestIds :
        /\ \A s \in Servers : delivered[s][r] = 1
        /\ \A m \in net : m.id # r

====
